---------------------------- MODULE Spec2Model ----------------------------
(***************************************************************************)
(* A model of src/main.py: the code-intake pipeline of the Discord bot     *)
(* (run / analyze / trust / block / stats), its static analyzer, its       *)
(* accounting ledger and its bounded execution history.                    *)
(*                                                                         *)
(* Scheduling: one asyncio event loop.  A handler runs atomically between  *)
(* two of its `await`s, so every action below is the code between two      *)
(* suspension points of one handler; handlers interleave only there.       *)
(*                                                                         *)
(* Abstractions.  Text is a sequence of one-character strings.  A          *)
(* submission is what ast.parse makes of it: a syntax error or a tree.     *)
(* Time is counted in whole time units (seconds).  Messages sent to the    *)
(* chat carry no state and are not kept, but for how the latest            *)
(* administrative command ended.  The text of a stream is the set of runs  *)
(* that printed to it.  User ids are names, and in the ledgers of the      *)
(* leaderboard numbers in order of creation.  UserStats.first_use and the  *)
(* code / output / timestamp fields of a history entry are not kept; a     *)
(* history entry carries instead the number of the run that appended it    *)
(* and its rank among all appends.                                         *)
(***************************************************************************)
EXTENDS Integers, Sequences, FiniteSets, TLC

VARIABLES
    TRUSTED_USERS,      \* set of user ids (main.py:60)
    BLOCKED_USERS,      \* set of user ids (main.py:61)
    user_stats,         \* the dict of main.py:37, in insertion order
    execution_history,  \* the list of main.py:36
    sys_stdout,         \* the stream sys.stdout currently names
    sys_stderr,         \* the stream sys.stderr currently names
    inv,                \* the run_code invocations, by number
    started,            \* how many run invocations were dispatched
    appended,           \* how many entries were ever appended to the history
    an_code,            \* the argument of the analyze command
    an_result,          \* what CodeAnalyzer.analyze returned for it
    config,             \* the dict of main.py:59, as save_config writes it
    config_file,        \* what bot_config.json holds on the disk
    admin_reply,        \* how the latest administrative command ended
    buffers,            \* whose text each stream holds (0: the process's own)
    hist_limit,         \* the argument of the history command
    recent,             \* the entries the history command shows
    board               \* the rows the leaderboard command shows

vars == <<TRUSTED_USERS, BLOCKED_USERS, user_stats, execution_history,
          sys_stdout, sys_stderr, inv, started, appended, an_code, an_result,
          config, config_file, admin_reply, buffers, hist_limit, recent, board>>

pipeline_vars == <<TRUSTED_USERS, BLOCKED_USERS, user_stats, execution_history,
                   sys_stdout, sys_stderr, inv, started, appended>>

analyzer_vars == <<an_code, an_result>>

admin_vars == <<config, config_file, admin_reply>>

query_vars == <<hist_limit, recent, board>>

----------------------------------------------------------------------------
(* Program constants and model bounds                                      *)

MAX_HISTORY == 100

EXECUTION_TIMEOUT == 30

\* Bounds of the model.
MaxRuns == 1        \* run invocations of one behaviour, beside the policy commands

LedgerRuns == 2     \* run invocations of one behaviour, on their own

MaxTicks == 2       \* clock ticks a body is followed for

MaxDepth == 3       \* nesting depth of the submitted expression trees

MaxEntries == 12    \* entries of the histories the history command is given

MaxLimit == 12      \* absolute value of the limits the history command is given

MaxBoard == 11      \* records of the ledgers the leaderboard command is given

StreamRuns == 2     \* concurrent run invocations whose bodies print

\* The clock is read in ticks of one timeout period.
TickLength == EXECUTION_TIMEOUT

OWNER == "owner"

Users == {"owner", "alice"}

\* The run invocations of the behaviour, dispatched or still to come.
Runs == DOMAIN inv

\* The original process stream; stream i > 0 is the StringIO of run i.
ORIG_STREAM == 0

----------------------------------------------------------------------------
(* Text                                                                    *)

t_os == <<"o", "s">>

t_system == <<"s", "y", "s", "t", "e", "m">>

t_eval == <<"e", "v", "a", "l">>

t_reopen == <<"r", "e", "o", "p", "e", "n">>

DANGEROUS_KEYWORDS ==
    { <<"o", "s", ".", "s", "y", "s", "t", "e", "m">>,
      <<"s", "u", "b", "p", "r", "o", "c", "e", "s", "s">>,
      <<"e", "v", "a", "l">>,
      <<"_", "_", "i", "m", "p", "o", "r", "t", "_", "_">>,
      <<"o", "p", "e", "n">>,
      <<"e", "x", "e", "c">>,
      <<"c", "o", "m", "p", "i", "l", "e">>,
      <<"g", "l", "o", "b", "a", "l", "s">>,
      <<"l", "o", "c", "a", "l", "s">> }

\* Python's `pat in text` on strings.
Contains(text, pat) ==
    \E k \in 0..(Len(text) - Len(pat)) : SubSeq(text, k + 1, k + Len(pat)) = pat

----------------------------------------------------------------------------
(* Syntax trees.  A node is [kind, text, kids]; kids are the child nodes   *)
(* in the order ast.iter_child_nodes yields them (Call: func, then args).  *)

NameNode(id) == [kind |-> "Name", text |-> id, kids |-> <<>>]

AttributeNode(value, attr) == [kind |-> "Attribute", text |-> attr, kids |-> <<value>>]

CallNode(func, args) == [kind |-> "Call", text |-> <<>>, kids |-> <<func>> \o args]

ExprStmt(value) == [kind |-> "Expr", text |-> <<>>, kids |-> <<value>>]

ModuleNode(body) == [kind |-> "Module", text |-> <<>>, kids |-> body]

Func(call) == call.kids[1]

Args(call) == Tail(call.kids)

RECURSIVE JoinArgs(_)
RECURSIVE unparse(_)
\* ast.unparse of an expression.
unparse(node) ==
    CASE node.kind = "Name" -> node.text
      [] node.kind = "Attribute" -> unparse(node.kids[1]) \o <<".">> \o node.text
      [] node.kind = "Call" -> unparse(Func(node)) \o <<"(">> \o JoinArgs(Args(node)) \o <<")">>
      [] OTHER -> <<>>

JoinArgs(args) ==
    IF args = <<>> THEN <<>>
    ELSE IF Len(args) = 1 THEN unparse(args[1])
    ELSE unparse(args[1]) \o <<",", " ">> \o JoinArgs(Tail(args))

RECURSIVE walk_func_only(_)
\* A walk that follows a call's target and skips its arguments.
walk_func_only(todo) ==
    IF todo = <<>> THEN <<>>
    ELSE <<Head(todo)>>
         \o walk_func_only(Tail(todo)
                           \o (IF Head(todo).kids = <<>> THEN <<>>
                               ELSE <<Head(todo).kids[1]>>))

RECURSIVE walk(_)
\* ast.walk: breadth first, from a queue of nodes still to visit.
walk(todo) ==
    IF todo = <<>> THEN <<>>
    ELSE <<Head(todo)>> \o walk(Tail(todo) \o Head(todo).kids)

\* The deny-listed names the loop body of analyze can report for one node
\* (which of several contained names comes first is the set's iteration
\* order); {} when the node makes the loop go on.
NodeHits(node) ==
    IF node.kind # "Call" THEN {}
    ELSE IF Func(node).kind = "Attribute"
         THEN {d \in DANGEROUS_KEYWORDS : Contains(unparse(Func(node)), d)}
    ELSE IF Func(node).kind = "Name"
         THEN {d \in DANGEROUS_KEYWORDS : Func(node).text = d}
    ELSE {}

RECURSIVE FirstHit(_)
\* The for loop of analyze over the walked nodes: the first node that
\* returns decides.
FirstHit(nodes) ==
    IF nodes = <<>> THEN {}
    ELSE IF NodeHits(Head(nodes)) # {} THEN NodeHits(Head(nodes))
    ELSE FirstHit(Tail(nodes))

\* A submission as ast.parse sees it.
SyntaxErrorCode == [parses |-> FALSE, tree |-> ModuleNode(<<>>)]

Program(expr) == [parses |-> TRUE, tree |-> ModuleNode(<<ExprStmt(expr)>>)]

\* CodeAnalyzer.analyze: [is_safe, kind, names]; names are the deny-listed
\* names the message may carry.
analyze(code) ==
    IF ~code.parses
    THEN [is_safe |-> FALSE, kind |-> "syntax", names |-> {}]
    ELSE LET hit == FirstHit(walk(<<code.tree>>))
         IN  IF hit # {}
             THEN [is_safe |-> FALSE, kind |-> "dangerous", names |-> hit]
             ELSE [is_safe |-> TRUE, kind |-> "passed", names |-> {}]

----------------------------------------------------------------------------
(* The submissions the model draws from                                    *)

Ids == {t_os, t_eval, t_reopen}

Attrs == {t_system}

Atoms == {NameNode(id) : id \in Ids}

RECURSIVE Exprs(_)
\* Expressions nested at most d deep; an argument is nested two less than
\* the call that carries it.
Exprs(d) ==
    IF d = 0 THEN Atoms
    ELSE LET prev == Exprs(d - 1)
             args == IF d = 1 THEN {<<>>}
                     ELSE {<<>>} \cup {<<a>> : a \in Exprs(d - 2)}
         IN  Atoms
             \cup {AttributeNode(v, a) : v \in prev, a \in Attrs}
             \cup {CallNode(f, as) : f \in prev, as \in args}

Codes == {SyntaxErrorCode} \cup {Program(e) : e \in Exprs(MaxDepth)}

\* os()
SafeCode == Program(CallNode(NameNode(t_os), <<>>))

\* os.system()
UnsafeCode == Program(CallNode(AttributeNode(NameNode(t_os), t_system), <<>>))

RunCodes == {SafeCode, UnsafeCode, SyntaxErrorCode}

----------------------------------------------------------------------------
(* Access policy                                                           *)

\* A block that spares the owner and the trusted users.
is_blocked_unless_trusted(u) ==
    u \in BLOCKED_USERS /\ u \notin TRUSTED_USERS /\ u # OWNER

\* The predicate of the is_blocked check on run.
is_blocked(u) == u \in BLOCKED_USERS

\* A check that lets the trusted users in beside the owner.
is_owner_or_trusted(u) == u = OWNER \/ u \in TRUSTED_USERS

\* commands.is_owner() on the administrative commands.
is_owner(u) == u = OWNER

\* The predicate of the is_trusted check (defined, used by no command).
is_trusted(u) == u \in TRUSTED_USERS \/ u = OWNER

\* A gate with the membership test inverted.
GateInverted(is_safe, u) == ~is_safe /\ u \in TRUSTED_USERS

\* A gate that asks nobody's trust.
GateIgnoresTrust(is_safe, u) == ~is_safe

\* The condition of the analysis gate of run_code.
GateRejects(is_safe, u) == ~is_safe /\ u \notin TRUSTED_USERS

----------------------------------------------------------------------------
(* Accounting ledger                                                       *)

HasStats(stats, u) == \E k \in DOMAIN stats : stats[k].user = u

StatsOf(stats, u) == stats[CHOOSE k \in DOMAIN stats : stats[k].user = u]

\* get_user_stats: the dict after the call (the record is created if absent).
get_user_stats(stats, u) ==
    IF HasStats(stats, u) THEN stats
    ELSE Append(stats, [user |-> u, executions |-> 0, errors |-> 0, total_time |-> 0])

\* "Update stats" of the success path.
StatsAfterSuccess(stats, u, execution_time) ==
    LET s == get_user_stats(stats, u)
    IN  [k \in DOMAIN s |->
            IF s[k].user = u
            THEN [s[k] EXCEPT !.executions = @ + 1, !.total_time = @ + execution_time]
            ELSE s[k]]

\* "Update error stats" of the except Exception handler.
StatsAfterError(stats, u, execution_time) ==
    LET s == get_user_stats(stats, u)
    IN  [k \in DOMAIN s |->
            IF s[k].user = u
            THEN [s[k] EXCEPT !.errors = @ + 1]
            ELSE s[k]]

HistoryEntry(u, status, run, seq) ==
    [user |-> u, status |-> status, run |-> run, seq |-> seq]

\* "Add to history" of the success path: append, then pop(0) over MAX_HISTORY.
HistoryAfterSuccess(history, entry) ==
    LET h == Append(history, entry)
    IN  IF Len(h) > MAX_HISTORY THEN Tail(h) ELSE h

\* "Add to history" of the except Exception handler: append only.
HistoryAfterError(history, entry) == Append(history, entry)

----------------------------------------------------------------------------
(* run_code                                                                *)

IdleInv ==
    [pc |-> "idle", user |-> OWNER, code |-> SafeCode, elapsed |-> 0,
     old_stdout |-> ORIG_STREAM, old_stderr |-> ORIG_STREAM,
     engine |-> FALSE, result |-> {}]

\* run_code has returned (or its exception has left it): the frame is gone.
DoneInv == [IdleInv EXCEPT !.pc = "done"]

\* The command is dispatched: the is_blocked check fails, up to the
\* `await ctx.send` of on_command_error; or it passes and the body runs up to
\* `await ctx.send(embed=loading_embed)`.
RunInvoke(u, code) ==
    /\ started < Len(inv)
    /\ started' = started + 1
    /\ inv' = [inv EXCEPT ![started + 1] =
                  IF is_blocked(u)
                  THEN [@ EXCEPT !.pc = "send_denied", !.user = u, !.code = code]
                  ELSE [@ EXCEPT !.pc = "send_loading", !.user = u, !.code = code]]
    /\ UNCHANGED <<TRUSTED_USERS, BLOCKED_USERS, user_stats, execution_history,
                   sys_stdout, sys_stderr, appended, analyzer_vars,
                   admin_vars, buffers, query_vars>>

\* ctx.send raises: the exception leaves run_code for on_command_error.
SendLoadingFails(i) ==
    /\ inv[i].pc = "send_loading"
    /\ inv' = [inv EXCEPT ![i] = DoneInv]
    /\ UNCHANGED <<TRUSTED_USERS, BLOCKED_USERS, user_stats, execution_history,
                   sys_stdout, sys_stderr, started, appended, analyzer_vars,
                   admin_vars, buffers, query_vars>>

\* ctx.send returned; the analysis gate closes: up to `await status_msg.edit`.
GateReject(i) ==
    /\ inv[i].pc = "send_loading"
    /\ GateRejects(analyze(inv[i].code).is_safe, inv[i].user)
    /\ inv' = [inv EXCEPT ![i].pc = "edit_reject"]
    /\ UNCHANGED <<TRUSTED_USERS, BLOCKED_USERS, user_stats, execution_history,
                   sys_stdout, sys_stderr, started, appended, analyzer_vars,
                   admin_vars, buffers, query_vars>>

\* ctx.send returned; the gate is passed, the streams are redirected, the
\* wrapped code compiles and func() is awaited: up to the body's first
\* suspension.
BodyStart(i) ==
    /\ inv[i].pc = "send_loading"
    /\ ~GateRejects(analyze(inv[i].code).is_safe, inv[i].user)
    /\ inv' = [inv EXCEPT ![i].pc = "body", ![i].engine = TRUE, ![i].elapsed = 0,
                          ![i].old_stdout = sys_stdout,
                          ![i].old_stderr = sys_stderr]
    /\ sys_stdout' = i
    /\ sys_stderr' = i
    /\ UNCHANGED <<TRUSTED_USERS, BLOCKED_USERS, user_stats, execution_history,
                   started, appended, analyzer_vars,
                   admin_vars, buffers, query_vars>>

\* ctx.send returned; the gate is passed, exec(to_compile) raises inside the
\* with block (the streams are redirected and restored within the step) and
\* the except Exception handler runs: up to its `await status_msg.edit`.
CompileFails(i) ==
    /\ inv[i].pc = "send_loading"
    /\ ~GateRejects(analyze(inv[i].code).is_safe, inv[i].user)
    /\ inv' = [inv EXCEPT ![i].pc = "edit_error", ![i].engine = TRUE]
    /\ user_stats' = StatsAfterError(user_stats, inv[i].user, 0)
    /\ execution_history' =
           HistoryAfterError(execution_history,
                             HistoryEntry(inv[i].user, "error", i, appended + 1))
    /\ appended' = appended + 1
    /\ UNCHANGED <<TRUSTED_USERS, BLOCKED_USERS, sys_stdout, sys_stderr,
                   started, analyzer_vars,
                   admin_vars, buffers, query_vars>>

\* The awaited body returns: the with block is left, the success path runs
\* up to `await status_msg.edit`.
BodyReturns(i) ==
    /\ inv[i].pc = "body"
    /\ sys_stderr' = inv[i].old_stderr
    /\ sys_stdout' = inv[i].old_stdout
    /\ user_stats' = StatsAfterSuccess(user_stats, inv[i].user, inv[i].elapsed)
    /\ execution_history' =
           HistoryAfterSuccess(execution_history,
                               HistoryEntry(inv[i].user, "success", i, appended + 1))
    /\ appended' = appended + 1
    /\ inv' = [inv EXCEPT ![i].pc = "edit_success", ![i].result = buffers[i]]
    /\ UNCHANGED <<TRUSTED_USERS, BLOCKED_USERS, started, analyzer_vars,
                   admin_vars, buffers, query_vars>>

\* The awaited body raises an Exception other than asyncio.TimeoutError.
BodyRaises(i) ==
    /\ inv[i].pc = "body"
    /\ sys_stderr' = inv[i].old_stderr
    /\ sys_stdout' = inv[i].old_stdout
    /\ user_stats' = StatsAfterError(user_stats, inv[i].user, inv[i].elapsed)
    /\ execution_history' =
           HistoryAfterError(execution_history,
                             HistoryEntry(inv[i].user, "error", i, appended + 1))
    /\ appended' = appended + 1
    /\ inv' = [inv EXCEPT ![i].pc = "edit_error"]
    /\ UNCHANGED <<TRUSTED_USERS, BLOCKED_USERS, started, analyzer_vars,
                   admin_vars, buffers, query_vars>>

\* A timeout handler that books the run as a failed one.
BodyRaisesTimeoutAsError(i) ==
    /\ inv[i].pc = "body"
    /\ sys_stderr' = inv[i].old_stderr
    /\ sys_stdout' = inv[i].old_stdout
    /\ user_stats' = StatsAfterError(user_stats, inv[i].user, inv[i].elapsed)
    /\ execution_history' =
           HistoryAfterError(execution_history,
                             HistoryEntry(inv[i].user, "error", i, appended + 1))
    /\ appended' = appended + 1
    /\ inv' = [inv EXCEPT ![i].pc = "edit_timeout"]
    /\ UNCHANGED <<TRUSTED_USERS, BLOCKED_USERS, started, analyzer_vars,
                   admin_vars, buffers, query_vars>>

\* The awaited body raises asyncio.TimeoutError (nothing else in run_code
\* does: the await of func() carries no deadline).
BodyRaisesTimeout(i) ==
    /\ inv[i].pc = "body"
    /\ sys_stderr' = inv[i].old_stderr
    /\ sys_stdout' = inv[i].old_stdout
    /\ inv' = [inv EXCEPT ![i].pc = "edit_timeout"]
    /\ UNCHANGED <<TRUSTED_USERS, BLOCKED_USERS, user_stats, execution_history,
                   started, appended, analyzer_vars,
                   admin_vars, buffers, query_vars>>

\* status_msg.edit of the success path returns.
EditSuccessDone(i) ==
    /\ inv[i].pc = "edit_success"
    /\ inv' = [inv EXCEPT ![i] = DoneInv]
    /\ UNCHANGED <<TRUSTED_USERS, BLOCKED_USERS, user_stats, execution_history,
                   sys_stdout, sys_stderr, started, appended, analyzer_vars,
                   admin_vars, buffers, query_vars>>

\* status_msg.edit of the success path raises inside the try: the except
\* Exception handler runs up to its own `await status_msg.edit`.
EditSuccessFails(i) ==
    /\ inv[i].pc = "edit_success"
    /\ user_stats' = StatsAfterError(user_stats, inv[i].user, inv[i].elapsed)
    /\ execution_history' =
           HistoryAfterError(execution_history,
                             HistoryEntry(inv[i].user, "error", i, appended + 1))
    /\ appended' = appended + 1
    /\ inv' = [inv EXCEPT ![i].pc = "edit_error"]
    /\ UNCHANGED <<TRUSTED_USERS, BLOCKED_USERS, sys_stdout, sys_stderr,
                   started, analyzer_vars,
                   admin_vars, buffers, query_vars>>

\* status_msg.edit of the rejection or of a handler, or the ctx.send of
\* on_command_error, returns or raises: either way the command is over.
EditDone(i) ==
    /\ inv[i].pc \in {"send_denied", "edit_reject", "edit_timeout", "edit_error"}
    /\ inv' = [inv EXCEPT ![i] = DoneInv]
    /\ UNCHANGED <<TRUSTED_USERS, BLOCKED_USERS, user_stats, execution_history,
                   sys_stdout, sys_stderr, started, appended, analyzer_vars,
                   admin_vars, buffers, query_vars>>

\* A print that writes to the printing run's own buffer.
BodyPrintsPrivate(i) ==
    /\ inv[i].pc = "body"
    /\ buffers' = [buffers EXCEPT ![i] = @ \cup {i}]
    /\ UNCHANGED <<TRUSTED_USERS, BLOCKED_USERS, user_stats, execution_history,
                   sys_stdout, sys_stderr, inv, started, appended, analyzer_vars,
                   admin_vars, query_vars>>

\* The awaited body resumes, prints and suspends again: print looks
\* sys.stdout up when it is called and writes to the stream it finds.
BodyPrints(i) ==
    /\ inv[i].pc = "body"
    /\ buffers' = [buffers EXCEPT ![sys_stdout] = @ \cup {i}]
    /\ UNCHANGED <<TRUSTED_USERS, BLOCKED_USERS, user_stats, execution_history,
                   sys_stdout, sys_stderr, inv, started, appended, analyzer_vars,
                   admin_vars, query_vars>>

\* The clock ticks while bodies are awaited: time.time() - start_time grows
\* by one tick for each of them.
Tick ==
    /\ \E i \in Runs : inv[i].pc = "body"
    /\ \A i \in Runs : inv[i].pc = "body" => inv[i].elapsed + TickLength <= MaxTicks * TickLength
    /\ inv' = [i \in Runs |->
                  IF inv[i].pc = "body"
                  THEN [inv[i] EXCEPT !.elapsed = @ + TickLength]
                  ELSE inv[i]]
    /\ UNCHANGED <<TRUSTED_USERS, BLOCKED_USERS, user_stats, execution_history,
                   sys_stdout, sys_stderr, started, appended, analyzer_vars,
                   admin_vars, buffers, query_vars>>

----------------------------------------------------------------------------
(* Administrative and statistics commands                                  *)

\* set.add and set.discard of Python.
set_add(S, x) == S \cup {x}

\* A removal that inserts what it does not find.
set_toggle(S, x) == IF x \in S THEN S \ {x} ELSE S \cup {x}

set_discard(S, x) == S \ {x}

\* How the write of save_config can end: the file is written; open() raises
\* and the file is as it was; json.dump raises after open() emptied the file.
SaveOutcomes == {"written", "open_fails", "dump_fails"}

\* bot_config.json before the first write: load_config answers the defaults.
AbsentFile == [state |-> "absent", trusted_users |-> {}, blocked_users |-> {}]

TruncatedFile == [state |-> "truncated", trusted_users |-> {}, blocked_users |-> {}]

\* save_config: the file after the call.
save_config(file, cfg, io) ==
    CASE io = "written" ->
             [state |-> "written", trusted_users |-> cfg.trusted_users,
              blocked_users |-> cfg.blocked_users]
      [] io = "open_fails" -> file
      [] OTHER -> TruncatedFile

\* on_command_error: a CheckFailure is answered in the chat; any other
\* error of a command (save_config's among them) is printed on the console.
on_command_error(error) ==
    IF error = "CheckFailure" THEN "denied" ELSE "printed"

\* The end of an administrative command that passed its check: the
\* confirmation is sent, or the error of save_config goes to on_command_error.
AdminOutcome(io) ==
    IF io = "written" THEN "confirmed" ELSE on_command_error("OSError")

\* trust: denied by the is_owner check; or the set insert, the update of
\* config and save_config, up to the `await ctx.send` that ends the command.
trust_user(caller, user, io) ==
    /\ IF ~is_owner(caller)
       THEN /\ admin_reply' = on_command_error("CheckFailure")
            /\ UNCHANGED <<TRUSTED_USERS, config, config_file>>
       ELSE /\ TRUSTED_USERS' = set_add(TRUSTED_USERS, user)
            /\ config' = [config EXCEPT !.trusted_users = TRUSTED_USERS']
            /\ config_file' = save_config(config_file, config', io)
            /\ admin_reply' = AdminOutcome(io)
    /\ UNCHANGED <<BLOCKED_USERS, user_stats, execution_history, sys_stdout,
                   sys_stderr, inv, started, appended, analyzer_vars,
                   buffers, query_vars>>

untrust_user(caller, user, io) ==
    /\ IF ~is_owner(caller)
       THEN /\ admin_reply' = on_command_error("CheckFailure")
            /\ UNCHANGED <<TRUSTED_USERS, config, config_file>>
       ELSE /\ TRUSTED_USERS' = set_discard(TRUSTED_USERS, user)
            /\ config' = [config EXCEPT !.trusted_users = TRUSTED_USERS']
            /\ config_file' = save_config(config_file, config', io)
            /\ admin_reply' = AdminOutcome(io)
    /\ UNCHANGED <<BLOCKED_USERS, user_stats, execution_history, sys_stdout,
                   sys_stderr, inv, started, appended, analyzer_vars,
                   buffers, query_vars>>

block_user(caller, user, io) ==
    /\ IF ~is_owner(caller)
       THEN /\ admin_reply' = on_command_error("CheckFailure")
            /\ UNCHANGED <<BLOCKED_USERS, config, config_file>>
       ELSE /\ BLOCKED_USERS' = set_add(BLOCKED_USERS, user)
            /\ config' = [config EXCEPT !.blocked_users = BLOCKED_USERS']
            /\ config_file' = save_config(config_file, config', io)
            /\ admin_reply' = AdminOutcome(io)
    /\ UNCHANGED <<TRUSTED_USERS, user_stats, execution_history, sys_stdout,
                   sys_stderr, inv, started, appended, analyzer_vars,
                   buffers, query_vars>>

unblock_user(caller, user, io) ==
    /\ IF ~is_owner(caller)
       THEN /\ admin_reply' = on_command_error("CheckFailure")
            /\ UNCHANGED <<BLOCKED_USERS, config, config_file>>
       ELSE /\ BLOCKED_USERS' = set_discard(BLOCKED_USERS, user)
            /\ config' = [config EXCEPT !.blocked_users = BLOCKED_USERS']
            /\ config_file' = save_config(config_file, config', io)
            /\ admin_reply' = AdminOutcome(io)
    /\ UNCHANGED <<TRUSTED_USERS, user_stats, execution_history, sys_stdout,
                   sys_stderr, inv, started, appended, analyzer_vars,
                   buffers, query_vars>>

\* stats: get_user_stats of the target.
show_stats(caller, target) ==
    /\ user_stats' = get_user_stats(user_stats, target)
    /\ UNCHANGED <<TRUSTED_USERS, BLOCKED_USERS, execution_history, sys_stdout,
                   sys_stderr, inv, started, appended, analyzer_vars,
                   admin_vars, buffers, query_vars>>

----------------------------------------------------------------------------
(* The analyze command                                                     *)

NoResult == [is_safe |-> TRUE, kind |-> "none", name |-> <<>>]

\* analyze_code up to the call of CodeAnalyzer.analyze: the verdict and the
\* name its message carries.
analyze_code ==
    /\ an_result = NoResult
    /\ LET res == analyze(an_code)
       IN  IF res.names = {}
           THEN an_result' = [is_safe |-> res.is_safe, kind |-> res.kind, name |-> <<>>]
           ELSE \E d \in res.names :
                    an_result' = [is_safe |-> res.is_safe, kind |-> res.kind, name |-> d]
    /\ UNCHANGED <<an_code, pipeline_vars, admin_vars, buffers, query_vars>>

----------------------------------------------------------------------------
(* The history and leaderboard commands                                    *)

\* `limit: int = 5` of show_history.
DEFAULT_LIMIT == 5

\* The 10 of `min(limit, 10)` in show_history.
HISTORY_ROWS == 10

\* The 10 of `[:10]` in leaderboard.
BOARD_ROWS == 10

NoRows == [done |-> FALSE, rows |-> <<>>]

Min(a, b) == IF a < b THEN a ELSE b

\* seq[start:] of Python: a negative start counts from the end, and either
\* way it is clamped to the sequence.
PySliceFrom(seq, start) ==
    LET n == Len(seq)
        s0 == IF start < 0 THEN start + n ELSE start
        s1 == IF s0 < 0 THEN 0 ELSE IF s0 > n THEN n ELSE s0
    IN  SubSeq(seq, s1 + 1, n)

\* seq[:stop] of Python for a stop that is not negative.
PySliceTo(seq, stop) == SubSeq(seq, 1, Min(stop, Len(seq)))

\* seq[::-1] of Python.
Reversed(seq) == [k \in 1..Len(seq) |-> seq[Len(seq) + 1 - k]]

\* show_history: `recent`, the entries the embed shows (none: the
\* "No execution history!" message).
show_history ==
    /\ ~recent.done
    /\ LET limit == Min(hist_limit, HISTORY_ROWS)
       IN  recent' = [done |-> TRUE,
                      rows |-> Reversed(PySliceFrom(execution_history, 0 - limit))]
    /\ UNCHANGED <<pipeline_vars, analyzer_vars, admin_vars, buffers, hist_limit, board>>

\* An insertion that puts a record before the records it ties with.
InsertBeforeTies(sorted, x) ==
    LET before == {k \in DOMAIN sorted : sorted[k].executions > x.executions}
    IN  SubSeq(sorted, 1, Cardinality(before)) \o <<x>>
        \o SubSeq(sorted, Cardinality(before) + 1, Len(sorted))

\* Where a stable descending sort puts x among the records sorted so far:
\* behind every record that has at least its executions.
InsertByExecutions(sorted, x) ==
    LET before == {k \in DOMAIN sorted : sorted[k].executions >= x.executions}
    IN  SubSeq(sorted, 1, Cardinality(before)) \o <<x>>
        \o SubSeq(sorted, Cardinality(before) + 1, Len(sorted))

RECURSIVE sorted_by_executions(_)
\* sorted(user_stats.items(), key=executions, reverse=True): Python's sort
\* is stable, with reverse=True too.
sorted_by_executions(items) ==
    IF items = <<>> THEN <<>>
    ELSE InsertByExecutions(sorted_by_executions(SubSeq(items, 1, Len(items) - 1)),
                            items[Len(items)])

\* leaderboard: `sorted_users`, the rows the embed shows (none: the
\* "No execution data yet!" message).
leaderboard ==
    /\ ~board.done
    /\ board' = [done |-> TRUE,
                 rows |-> IF user_stats = <<>> THEN <<>>
                          ELSE PySliceTo(sorted_by_executions(user_stats), BOARD_ROWS)]
    /\ UNCHANGED <<pipeline_vars, analyzer_vars, admin_vars, buffers, hist_limit, recent>>

----------------------------------------------------------------------------
(* Specifications                                                          *)

\* A history one short of capacity, as MAX_HISTORY - 1 successful runs of
\* alice that took no measurable time leave it.
FullHistory ==
    [k \in 1..(MAX_HISTORY - 1) |-> HistoryEntry("alice", "success", 0, k)]

\* load_config with no file on the disk, and the two sets read from it.
InitPolicy ==
    /\ config = [trusted_users |-> {}, blocked_users |-> {}]
    /\ config_file = AbsentFile
    /\ TRUSTED_USERS = config.trusted_users
    /\ BLOCKED_USERS = config.blocked_users
    /\ admin_reply = "none"

InitLedger ==
    /\ user_stats = <<>>
    /\ execution_history = <<>>
    /\ appended = 0

InitLedgerFull ==
    /\ user_stats = <<[user |-> "alice", executions |-> MAX_HISTORY - 1,
                       errors |-> 0, total_time |-> 0]>>
    /\ execution_history = FullHistory
    /\ appended = MAX_HISTORY - 1

InitRuns(n) ==
    /\ sys_stdout = ORIG_STREAM
    /\ sys_stderr = ORIG_STREAM
    /\ inv = [i \in 1..n |-> IdleInv]
    /\ started = 0
    /\ buffers = [k \in 0..n |-> {}]

\* No history or leaderboard command was given.
InitQuery ==
    /\ hist_limit = DEFAULT_LIMIT
    /\ recent = NoRows
    /\ board = NoRows

Init ==
    /\ InitPolicy
    /\ InitLedger
    /\ InitRuns(MaxRuns)
    /\ an_code = SafeCode
    /\ an_result = NoResult
    /\ InitQuery

RunNext ==
    \/ \E u \in Users, code \in RunCodes : RunInvoke(u, code)
    \/ \E i \in Runs : SendLoadingFails(i)
    \/ \E i \in Runs : GateReject(i)
    \/ \E i \in Runs : BodyStart(i)
    \/ \E i \in Runs : CompileFails(i)
    \/ \E i \in Runs : BodyReturns(i)
    \/ \E i \in Runs : BodyRaises(i)
    \/ \E i \in Runs : BodyRaisesTimeout(i)
    \/ \E i \in Runs : EditSuccessDone(i)
    \/ \E i \in Runs : EditSuccessFails(i)
    \/ \E i \in Runs : EditDone(i)

\* The administrative commands on a disk that takes every write.
AdminNext ==
    \/ \E c \in Users, u \in Users : trust_user(c, u, "written")
    \/ \E c \in Users, u \in Users : untrust_user(c, u, "written")
    \/ \E c \in Users, u \in Users : block_user(c, u, "written")
    \/ \E c \in Users, u \in Users : unblock_user(c, u, "written")
    \/ \E c \in Users, u \in Users : show_stats(c, u)

Next == RunNext \/ AdminNext

Spec == Init /\ [][Next]_vars

\* The analyze command on every submission of the bounded set.
InitAnalyze ==
    /\ InitPolicy
    /\ InitLedger
    /\ InitRuns(MaxRuns)
    /\ an_code \in Codes
    /\ an_result = NoResult
    /\ InitQuery

NextAnalyze == analyze_code

AnalyzeSpec == InitAnalyze /\ [][NextAnalyze]_vars

\* The runs alone, with the time their bodies take, from an empty ledger or
\* from a history one short of capacity.
InitLedgerSpec ==
    /\ InitPolicy
    /\ InitLedger \/ InitLedgerFull
    /\ InitRuns(LedgerRuns)
    /\ an_code = SafeCode
    /\ an_result = NoResult
    /\ InitQuery

LedgerNext == RunNext \/ Tick

LedgerSpec == InitLedgerSpec /\ [][LedgerNext]_vars

\* The administrative commands alone, on a disk whose writes can fail.
AdminCommands ==
    \/ \E c \in Users, u \in Users, io \in SaveOutcomes : trust_user(c, u, io)
    \/ \E c \in Users, u \in Users, io \in SaveOutcomes : untrust_user(c, u, io)
    \/ \E c \in Users, u \in Users, io \in SaveOutcomes : block_user(c, u, io)
    \/ \E c \in Users, u \in Users, io \in SaveOutcomes : unblock_user(c, u, io)

AdminSpec == Init /\ [][AdminCommands]_vars

\* The history as n successful runs of alice (that took no measurable time)
\* leave it, and the ledger with it.
HistoryOf(n) == [k \in 1..n |-> HistoryEntry("alice", "success", 0, k)]

LedgerOf(n) ==
    IF n = 0 THEN <<>>
    ELSE <<[user |-> "alice", executions |-> n, errors |-> 0, total_time |-> 0]>>

\* The history command with every limit of the range, on every history of
\* the range.
InitHistory ==
    /\ InitPolicy
    /\ InitRuns(MaxRuns)
    /\ \E n \in 0..MaxEntries :
           /\ execution_history = HistoryOf(n)
           /\ user_stats = LedgerOf(n)
           /\ appended = n
    /\ an_code = SafeCode
    /\ an_result = NoResult
    /\ hist_limit \in (0 - MaxLimit)..MaxLimit
    /\ recent = NoRows
    /\ board = NoRows

HistoryNext == show_history

HistorySpec == InitHistory /\ [][HistoryNext]_vars

\* The executions the records of the leaderboard's ledgers are drawn from.
BoardExecutions == {2, 5}

\* The ledgers of n users, numbered in the order of their first runs.
BoardLedgers(n) ==
    {[k \in 1..n |-> [user |-> k, executions |-> e[k], errors |-> 0, total_time |-> 0]] :
        e \in [1..n -> BoardExecutions]}

RECURSIVE RunsOf(_)
\* The history of a ledger whose users ran one after the other, each all of
\* its successful runs in a row.
RunsOf(stats) ==
    IF stats = <<>> THEN <<>>
    ELSE LET rest == RunsOf(SubSeq(stats, 1, Len(stats) - 1))
             last == stats[Len(stats)]
         IN  rest \o [k \in 1..last.executions |->
                         HistoryEntry(last.user, "success", 0, Len(rest) + k)]

\* The leaderboard command on every ledger of the range.
InitBoard ==
    /\ InitPolicy
    /\ InitRuns(MaxRuns)
    /\ \E n \in 0..MaxBoard : user_stats \in BoardLedgers(n)
    /\ execution_history = RunsOf(user_stats)
    /\ appended = Len(execution_history)
    /\ an_code = SafeCode
    /\ an_result = NoResult
    /\ InitQuery

BoardNext == leaderboard

BoardSpec == InitBoard /\ [][BoardNext]_vars

\* Concurrent runs of one submitter whose bodies print, on a chat that
\* takes every message.
InitStream ==
    /\ InitPolicy
    /\ InitLedger
    /\ InitRuns(StreamRuns)
    /\ an_code = SafeCode
    /\ an_result = NoResult
    /\ InitQuery

StreamNext ==
    \/ RunInvoke("alice", SafeCode)
    \/ \E i \in Runs : BodyStart(i)
    \/ \E i \in Runs : BodyPrints(i)
    \/ \E i \in Runs : BodyReturns(i)
    \/ \E i \in Runs : EditSuccessDone(i)

StreamSpec == InitStream /\ [][StreamNext]_vars

----------------------------------------------------------------------------
(* Properties                                                              *)

ExecutionsOf(stats, u) == IF HasStats(stats, u) THEN StatsOf(stats, u).executions ELSE 0

ErrorsOf(stats, u) == IF HasStats(stats, u) THEN StatsOf(stats, u).errors ELSE 0

TotalTimeOf(stats, u) == IF HasStats(stats, u) THEN StatsOf(stats, u).total_time ELSE 0

\* The submission holds a call the deny-list catches.
Dangerous(code) == analyze(code).kind = "dangerous"

\* Run i took a step.
Stepped(i) == inv'[i] # inv[i]

\* C1: every UserStats record has executions >= errors >= 0, whatever runs
\* (successes, failures, timeouts, rejections) came before.
C1_ExecutionsAtLeastErrors ==
    \A k \in DOMAIN user_stats :
        /\ user_stats[k].executions >= user_stats[k].errors
        /\ user_stats[k].errors >= 0

\* C2: the history never holds more than MAX_HISTORY entries, whichever
\* path appended the last one.
C2_HistoryBounded == Len(execution_history) <= MAX_HISTORY

\* C3: a run that ends in Success adds 1 to its submitter's executions and
\* its elapsed time to total_time; one that ends in RuntimeFailure adds 1 to
\* executions, 1 to errors and its elapsed time to total_time.
C3_LedgerRule ==
    [][\A i \in Runs :
        LET u == inv[i].user
            t == inv[i].elapsed
        IN  /\ (inv[i].pc = "body" /\ inv'[i].pc = "edit_success") =>
                  /\ ExecutionsOf(user_stats', u) = ExecutionsOf(user_stats, u) + 1
                  /\ ErrorsOf(user_stats', u) = ErrorsOf(user_stats, u)
                  /\ TotalTimeOf(user_stats', u) = TotalTimeOf(user_stats, u) + t
            /\ (inv[i].pc = "body" /\ inv'[i].pc = "edit_error") =>
                  /\ ExecutionsOf(user_stats', u) = ExecutionsOf(user_stats, u) + 1
                  /\ ErrorsOf(user_stats', u) = ErrorsOf(user_stats, u) + 1
                  /\ TotalTimeOf(user_stats', u) = TotalTimeOf(user_stats, u) + t
      ]_vars

\* C4: a run invoked by a user of the blocked set is denied at dispatch,
\* trusted or owner or not: it goes to the denial message and from there to
\* its end, is never analyzed or executed, and user_stats and
\* execution_history stay as they are.
C4_BlockedDenied ==
    [][\A i \in Runs :
        /\ (inv[i].pc = "idle" /\ Stepped(i) /\ inv'[i].user \in BLOCKED_USERS) =>
              /\ inv'[i].pc = "send_denied"
              /\ ~inv'[i].engine
              /\ UNCHANGED <<user_stats, execution_history>>
        /\ (inv[i].pc = "send_denied" /\ Stepped(i)) =>
              /\ inv'[i].pc = "done"
              /\ UNCHANGED <<user_stats, execution_history>>
      ]_vars

\* C4 witness: the owner, trusted and blocked at once, was denied.
C4_Witness ==
    \E i \in Runs :
        /\ inv[i].pc = "send_denied"
        /\ inv[i].user = OWNER
        /\ OWNER \in TRUSTED_USERS \cap BLOCKED_USERS
        /\ inv[i].code = UnsafeCode

\* C5: no body is still awaited once more than EXECUTION_TIMEOUT time units
\* have passed since start_time: the run is abandoned at the deadline.
C5_AbandonedAtDeadline ==
    \A i \in Runs : inv[i].pc = "body" => inv[i].elapsed <= EXECUTION_TIMEOUT

\* C6: when the gate is reached with a deny-listed call and a submitter
\* outside the trusted set, the run goes to its rejection message and from
\* there to its end: it never enters the execution section, and its steps
\* leave user_stats, execution_history and both policy sets as they are.
C6_RejectionFrame ==
    [][\A i \in Runs :
        /\ (/\ inv[i].pc = "send_loading"
            /\ Stepped(i)
            /\ inv[i].user \notin TRUSTED_USERS
            /\ Dangerous(inv[i].code)) =>
              /\ inv'[i].pc \in {"edit_reject", "done"}
              /\ ~inv'[i].engine
              /\ UNCHANGED <<user_stats, execution_history, TRUSTED_USERS, BLOCKED_USERS>>
        /\ (inv[i].pc = "edit_reject" /\ Stepped(i)) =>
              /\ inv'[i].pc = "done"
              /\ UNCHANGED <<user_stats, execution_history, TRUSTED_USERS, BLOCKED_USERS>>
      ]_vars

\* C6 witness: an untrusted user's deny-listed call was rejected at the gate.
C6_Witness ==
    \E i \in Runs :
        /\ inv[i].pc = "edit_reject"
        /\ Dangerous(inv[i].code)
        /\ ~is_trusted(inv[i].user)
        /\ ~inv[i].engine

\* A history entry of run i with this status.
Recorded(history, i, status) ==
    \E k \in DOMAIN history : history[k].run = i /\ history[k].status = status

\* The newest history entry is the one of run i, by u, with this status.
LastEntryIs(history, u, status, i) ==
    /\ history # <<>>
    /\ history[Len(history)].user = u
    /\ history[Len(history)].status = status
    /\ history[Len(history)].run = i

\* C7 (amended): when the gate is reached (the loading message was sent) with
\* a deny-listed call and a submitter of the trusted set, the run enters the
\* execution section; when such a run ends in Success or RuntimeFailure one
\* history entry is appended for it and its submitter's ledger record
\* changes, and when it ends in Timeout nothing is recorded.
C7_TrustedBypass ==
    [][\A i \in Runs :
        LET u == inv[i].user
        IN  /\ (/\ inv[i].pc = "send_loading"
                /\ inv'[i].pc \notin {"send_loading", "done"}
                /\ u \in TRUSTED_USERS
                /\ Dangerous(inv[i].code)) =>
                  /\ inv'[i].engine
                  /\ inv'[i].pc \in {"body", "edit_error"}
            /\ (inv[i].pc = "body" /\ inv'[i].pc = "edit_success"
                /\ Dangerous(inv[i].code)) =>
                  /\ LastEntryIs(execution_history', u, "success", i)
                  /\ ~Recorded(execution_history, i, "success")
                  /\ ExecutionsOf(user_stats', u) = ExecutionsOf(user_stats, u) + 1
            /\ (inv[i].pc \in {"send_loading", "body"} /\ inv'[i].pc = "edit_error"
                /\ Dangerous(inv[i].code)) =>
                  /\ LastEntryIs(execution_history', u, "error", i)
                  /\ ~Recorded(execution_history, i, "error")
                  /\ ErrorsOf(user_stats', u) = ErrorsOf(user_stats, u) + 1
            /\ (Stepped(i) /\ inv'[i].pc = "edit_timeout" /\ Dangerous(inv[i].code)) =>
                  UNCHANGED <<user_stats, execution_history>>
      ]_vars

\* C7 witness: a trusted user who is not the owner ran a deny-listed call and
\* its success is in the history.
C7_Witness ==
    \E i \in Runs :
        /\ inv[i].pc = "edit_success"
        /\ Dangerous(inv[i].code)
        /\ inv[i].user \in TRUSTED_USERS \ BLOCKED_USERS
        /\ inv[i].user # OWNER
        /\ Recorded(execution_history, i, "success")
        /\ ExecutionsOf(user_stats, inv[i].user) = 1

\* C7 as claimed: a trusted submitter's deny-listed call enters the
\* execution section, and whatever outcome the run ends in is recorded in
\* the ledger and in the history.
C7_OutcomeRecorded ==
    [][\A i \in Runs :
        /\ (/\ inv[i].pc = "send_loading"
            /\ Dangerous(inv[i].code)
            /\ inv[i].user \in TRUSTED_USERS
            /\ inv'[i].pc \notin {"send_loading", "done"}) =>
              inv'[i].engine
        /\ (/\ inv[i].pc = "body"
            /\ Dangerous(inv[i].code)
            /\ inv'[i].pc # "body") =>
              /\ execution_history' # execution_history
              /\ user_stats' # user_stats
      ]_vars

\* C8: the owner's deny-listed call passes the gate whether or not the
\* owner's id is in the trusted set.
C8_OwnerBypass ==
    [][\A i \in Runs :
        (/\ inv[i].pc = "send_loading"
         /\ inv[i].user = OWNER
         /\ Dangerous(inv[i].code)
         /\ inv'[i].pc \notin {"send_loading", "done"}) =>
            inv'[i].engine
      ]_vars

\* C9: no run enters the execution section while its submitter is in the
\* blocked set.
C9_NoExecutionWhileBlocked ==
    [][\A i \in Runs :
        (~inv[i].engine /\ inv'[i].engine) => inv'[i].user \notin BLOCKED_USERS
      ]_vars

RECURSIVE Subtrees(_)
\* Every node of a tree, the root included.
Subtrees(node) ==
    {node} \cup UNION {Subtrees(node.kids[k]) : k \in DOMAIN node.kids}

\* The deny-listed names a call node matches: as a substring of the rendered
\* target for an attribute access, as the whole identifier for a bare name.
CallMatches(node) ==
    IF node.kind # "Call" THEN {}
    ELSE {d \in DANGEROUS_KEYWORDS :
            \/ Func(node).kind = "Attribute" /\ Contains(unparse(Func(node)), d)
            \/ Func(node).kind = "Name" /\ Func(node).text = d}

AllMatches(code) == UNION {CallMatches(n) : n \in Subtrees(code.tree)}

\* The tree holds a call of a deny-listed operation: by its bare name, or by
\* a qualified access that ends in it or spells it out.
CallsDenyListed(code) ==
    \E n \in Subtrees(code.tree) :
        /\ n.kind = "Call"
        /\ \/ Func(n).kind = "Name" /\ Func(n).text \in DANGEROUS_KEYWORDS
           \/ /\ Func(n).kind = "Attribute"
              /\ \/ Func(n).text \in DANGEROUS_KEYWORDS
                 \/ unparse(Func(n)) \in DANGEROUS_KEYWORDS

\* C10: for a submission that parses, analyze answers UNSAFE, naming a
\* deny-listed name that some call of the tree matches, exactly when some
\* call of the tree matches one, and SAFE otherwise; a tree that calls a
\* deny-listed operation, by name or by qualified access, is UNSAFE.
C10_AnalyzeVerdict ==
    (an_result # NoResult /\ an_code.parses) =>
        /\ an_result.kind \in {"dangerous", "passed"}
        /\ an_result.is_safe <=> an_result.kind = "passed"
        /\ an_result.kind = "dangerous" <=> AllMatches(an_code) # {}
        /\ an_result.kind = "dangerous" => an_result.name \in AllMatches(an_code)
        /\ an_result.kind = "passed" => an_result.name = <<>>
        /\ CallsDenyListed(an_code) => ~an_result.is_safe

\* C10 witness: os(eval()) is UNSAFE for the call nested in the arguments.
C10_Witness ==
    /\ an_code = Program(CallNode(NameNode(t_os), <<CallNode(NameNode(t_eval), <<>>)>>))
    /\ an_result = [is_safe |-> FALSE, kind |-> "dangerous", name |-> t_eval]

\* A step of one of the four administrative commands with these inputs.
AdminStep(c, u, io) ==
    \/ trust_user(c, u, io)
    \/ untrust_user(c, u, io)
    \/ block_user(c, u, io)
    \/ unblock_user(c, u, io)

\* C11: the owner's trust / untrust / block / unblock are idempotent set
\* insert / remove.  From every state: after trust(u), u is trusted and
\* nothing else changed in the trusted set; trust(u) of a member and
\* untrust(u) of a non-member leave the trusted set as it is (so a second
\* application adds nothing to the first); the same for block / unblock on
\* the blocked set; trust / untrust leave the blocked set alone and
\* block / unblock the trusted set.
C11_IdempotentSets ==
    [][\A c \in Users, u \in Users, io \in SaveOutcomes :
        /\ (c = OWNER /\ trust_user(c, u, io)) =>
              /\ TRUSTED_USERS' = TRUSTED_USERS \cup {u}
              /\ u \in TRUSTED_USERS => TRUSTED_USERS' = TRUSTED_USERS
              /\ set_add(TRUSTED_USERS', u) = TRUSTED_USERS'
              /\ BLOCKED_USERS' = BLOCKED_USERS
        /\ (c = OWNER /\ untrust_user(c, u, io)) =>
              /\ TRUSTED_USERS' = TRUSTED_USERS \ {u}
              /\ u \notin TRUSTED_USERS => TRUSTED_USERS' = TRUSTED_USERS
              /\ set_discard(TRUSTED_USERS', u) = TRUSTED_USERS'
              /\ BLOCKED_USERS' = BLOCKED_USERS
        /\ (c = OWNER /\ block_user(c, u, io)) =>
              /\ BLOCKED_USERS' = BLOCKED_USERS \cup {u}
              /\ u \in BLOCKED_USERS => BLOCKED_USERS' = BLOCKED_USERS
              /\ set_add(BLOCKED_USERS', u) = BLOCKED_USERS'
              /\ TRUSTED_USERS' = TRUSTED_USERS
        /\ (c = OWNER /\ unblock_user(c, u, io)) =>
              /\ BLOCKED_USERS' = BLOCKED_USERS \ {u}
              /\ u \notin BLOCKED_USERS => BLOCKED_USERS' = BLOCKED_USERS
              /\ set_discard(BLOCKED_USERS', u) = BLOCKED_USERS'
              /\ TRUSTED_USERS' = TRUSTED_USERS
      ]_vars

\* C11 witness: alice was trusted and blocked, the owner was untrusted and
\* unblocked or never a member, and the last write reached the disk.
C11_Witness ==
    /\ TRUSTED_USERS = {"alice"}
    /\ BLOCKED_USERS = {"alice"}
    /\ admin_reply = "confirmed"
    /\ config_file.state = "written"
    /\ config_file.trusted_users = {"alice"}
    /\ config_file.blocked_users = {"alice"}

\* C12: an administrative command of anyone but the owner is answered with
\* the denial and changes neither the trusted set, nor the blocked set, nor
\* config, nor the file on the disk.
C12_NonOwnerDenied ==
    [][\A c \in Users \ {OWNER}, u \in Users, io \in SaveOutcomes :
        AdminStep(c, u, io) =>
            /\ admin_reply' = "denied"
            /\ UNCHANGED <<TRUSTED_USERS, BLOCKED_USERS, config, config_file>>
      ]_vars

\* C12 witness: a user the owner had trusted was denied, with the policy on
\* the disk as the owner left it.
C12_Witness ==
    /\ admin_reply = "denied"
    /\ TRUSTED_USERS = {"alice"}
    /\ BLOCKED_USERS = {OWNER}
    /\ config_file.state = "written"
    /\ config_file.trusted_users = TRUSTED_USERS
    /\ config_file.blocked_users = BLOCKED_USERS

\* The slice recent(limit) of the history: its last min(limit, 10) entries
\* (none for a limit of 0 or less), the newest first.
RecentRows(history, limit) ==
    LET m == Min(limit, HISTORY_ROWS)
        k == IF m <= 0 THEN 0 ELSE Min(m, Len(history))
    IN  [j \in 1..k |-> history[Len(history) + 1 - j]]

\* C13: for every integer limit (0 and the negative ones included) and
\* every history, the history command shows at most 10 entries: the last
\* min(limit, 10) of execution_history, the newest first.
C13_RecentCapped ==
    recent.done =>
        /\ Len(recent.rows) <= HISTORY_ROWS
        /\ recent.rows = RecentRows(execution_history, hist_limit)

\* Where the record of a row stands in user_stats.
RankOf(row) == CHOOSE k \in DOMAIN user_stats : user_stats[k] = row

\* Row a goes before row b: more executions, or as many and created first.
GoesBefore(a, b) ==
    \/ a.executions > b.executions
    \/ a.executions = b.executions /\ RankOf(a) < RankOf(b)

\* C14: the leaderboard shows min(10, number of records) rows, each the
\* record of another user; a row goes before the next when it has more
\* executions, or as many and its record was created first; and every
\* record left out would go behind every row shown.
C14_LeaderboardOrder ==
    board.done =>
        /\ Len(board.rows) = Min(BOARD_ROWS, Len(user_stats))
        /\ \A j \in DOMAIN board.rows : \E k \in DOMAIN user_stats : user_stats[k] = board.rows[j]
        /\ \A j, k \in DOMAIN board.rows : j < k => GoesBefore(board.rows[j], board.rows[k])
        /\ \A k \in DOMAIN user_stats :
              (\A j \in DOMAIN board.rows : board.rows[j] # user_stats[k]) =>
                  \A j \in DOMAIN board.rows : GoesBefore(board.rows[j], user_stats[k])

\* C14 witness: eleven records whose first three have 5, 5 and 2 executions
\* and whose last has 5; the rows start with users 1 and 2 in that order and
\* one record with 2 executions is left out.
C14_Witness ==
    /\ board.done
    /\ Len(user_stats) = 11
    /\ user_stats[1].executions = 5
    /\ user_stats[2].executions = 5
    /\ user_stats[3].executions = 2
    /\ user_stats[11].executions = 5
    /\ Len(board.rows) = BOARD_ROWS
    /\ board.rows[1].user = 1
    /\ board.rows[2].user = 2
    /\ \E j \in DOMAIN board.rows : board.rows[j].user = 11
    /\ \E j \in DOMAIN board.rows : board.rows[j].user = 3

\* C15: when the write of save_config fails in an administrative command of
\* the owner, the owner is told so in the chat: the command ends neither in
\* the console's print nor in the confirmation.
C15_SaveFailureSurfaced ==
    [][\A u \in Users, io \in SaveOutcomes \ {"written"} :
        AdminStep(OWNER, u, io) => admin_reply' \notin {"printed", "confirmed", "none"}
      ]_vars

EntriesOf(history, i) == Cardinality({k \in DOMAIN history : history[k].run = i})

\* C17: a run that reached the execution section and ends in Success or
\* RuntimeFailure has exactly one history entry, appended by the step that
\* ends its body together with 1 more execution of its submitter; what
\* happens to the result message afterwards records nothing more.
C17_OneOutcome ==
    [][\A i \in Runs :
        LET u == inv[i].user
        IN  /\ (/\ inv[i].pc \in {"send_loading", "body"}
                /\ inv'[i].pc \in {"edit_success", "edit_error"}) =>
                  /\ EntriesOf(execution_history', i) = 1
                  /\ ExecutionsOf(user_stats', u) = ExecutionsOf(user_stats, u) + 1
            /\ (inv[i].pc \in {"edit_success", "edit_error"} /\ Stepped(i)) =>
                  /\ EntriesOf(execution_history', i) = 1
                  /\ ExecutionsOf(user_stats', u) = ExecutionsOf(user_stats, u)
                  /\ ErrorsOf(user_stats', u) = ErrorsOf(user_stats, u)
      ]_vars

\* C18: a print of a body adds the printing run's text to the one stream
\* sys.stdout names at that moment and to no other: to the run's own buffer
\* only when that is the stream named, else to another run's buffer or to
\* the process's own stream.
C18_SharedStream ==
    [][\A i \in Runs :
        BodyPrints(i) =>
            /\ i \in buffers'[sys_stdout]
            /\ \A k \in DOMAIN buffers : k # sys_stdout => buffers'[k] = buffers[k]
            /\ sys_stdout # i => (i \in buffers'[i] <=> i \in buffers[i])
      ]_vars

\* C18 witness: two runs were in their bodies at once; the captured output of
\* one holds the other's text and nothing of its own, and its own text went
\* to the process's stream.
C18_Witness ==
    \E i, j \in Runs :
        /\ i # j
        /\ inv[i].pc = "edit_success"
        /\ inv[i].result = {j}
        /\ i \in buffers[ORIG_STREAM]
        /\ i \notin buffers[i]

\* C19: a run of code that does not parse, by a trusted submitter or not,
\* goes from the gate to the rejection message: it does not enter the
\* execution section and records nothing in user_stats or execution_history.
C19_SyntaxRejected ==
    [][\A i \in Runs :
        (/\ inv[i].pc = "send_loading"
         /\ inv'[i].pc \notin {"send_loading", "done"}
         /\ ~inv[i].code.parses) =>
            /\ inv'[i].pc = "edit_reject"
            /\ ~inv'[i].engine
            /\ UNCHANGED <<user_stats, execution_history>>
      ]_vars

\* C20: a record of u appears in user_stats only in a step of a run of u
\* that the ledger books (no stats query creates one); a record that exists
\* stays, and its executions, errors and total_time do not decrease.
C20_LazyRecords ==
    [][\A u \in Users :
        /\ (HasStats(user_stats', u) /\ ~HasStats(user_stats, u)) =>
              \E i \in Runs :
                 /\ inv[i].user = u
                 /\ inv[i].pc \in {"send_loading", "body", "edit_success"}
                 /\ inv'[i].pc \in {"edit_success", "edit_error"}
        /\ HasStats(user_stats, u) =>
              /\ HasStats(user_stats', u)
              /\ ExecutionsOf(user_stats', u) >= ExecutionsOf(user_stats, u)
              /\ ErrorsOf(user_stats', u) >= ErrorsOf(user_stats, u)
              /\ TotalTimeOf(user_stats', u) >= TotalTimeOf(user_stats, u)
      ]_vars

\* Run i was dispatched and run_code has not yet returned.
InFlight(i) == inv[i].pc \notin {"idle", "done"}

\* C21: whenever no run invocation is in flight, sys.stdout and sys.stderr
\* are the process's original streams again, in whatever order the
\* concurrent runs entered and left their with blocks.
C21_StreamsRestored ==
    (\A i \in Runs : ~InFlight(i)) =>
        /\ sys_stdout = ORIG_STREAM
        /\ sys_stderr = ORIG_STREAM

============================================================================
